---- MODULE Spec2Model ----
(***************************************************************************)
(* Model of scripts/pipeline/transpile.py.                                 *)
(*                                                                         *)
(* The file is a Python module with three parts: the top-level imports     *)
(* (lines 2-4), the function main() (lines 6-58) and the block guarded by  *)
(* __name__ == "__main__" (lines 60-68).  One run of the interpreter over  *)
(* the file is modelled statement by statement; pc is the statement about  *)
(* to execute.  The file can be run as a script, or imported by a host     *)
(* program that may then call main(); both are modelled.                   *)
(*                                                                         *)
(* Line 4 imports the package py2ts, which is not part of the repository:  *)
(* the import runs whatever code the installed package holds, in every     *)
(* run and outside any try block.  The installation is part of the state.  *)
(*                                                                         *)
(* Text is a sequence of tokens.  A file's content is a sequence over      *)
(* Char; BAD stands for a byte sequence that is not valid in the locale    *)
(* encoding, so that decoding it raises UnicodeDecodeError.                *)
(***************************************************************************)
EXTENDS Integers, Sequences, FiniteSets

\* ---------------------------------------------------------------- bounds
MaxLen == 2            \* longest file content, in characters
MaxArgs == 2           \* most command-line arguments after the script name

\* ------------------------------------------------------------- alphabet
LF == "\n"
CR == "\r"
BAD == "\\xff"
Char == {"a", LF, CR, BAD}

ScriptName == "transpile.py"
Paths == {"hello.py", "pkg/mod.py"}

\* Where the interpreter caches the bytecode of py2ts when it imports it.
CachePath == "py2ts/__pycache__"
AllPaths == Paths \cup {CachePath}

NoExit == -1           \* the process has not terminated yet

SeqsUpTo(S, n) == UNION {[1..k -> S] : k \in 0..n}

Contents == SeqsUpTo(Char, MaxLen)

\* The state of one path of the file system.  Kind "noperm" is a file
\* without read permission; kind "nosearch" is a file inside a directory
\* without search permission, which stat() cannot reach.
MissingFile == [kind |-> "missing", content |-> <<>>]

FileStates ==
    {[kind |-> "missing", content |-> <<>>],
     [kind |-> "dir", content |-> <<>>],
     [kind |-> "noperm", content |-> <<>>],
     [kind |-> "nosearch", content |-> <<>>]}
    \cup {[kind |-> "file", content |-> c] : c \in Contents}

\* Values of the arguments after the first, which no statement reads.
ExtraArgs == {"pkg/mod.py"}

\* sys.argv: the script name followed by at most MaxArgs arguments.
ArgVectors ==
    {<<ScriptName>>}
    \cup {<<ScriptName, p>> \o e :
            p \in Paths, e \in SeqsUpTo(ExtraArgs, MaxArgs - 1)}

\* sys.argv[i] of Python (0-based) is argv[i + 1] here.
ArgCount(av) == Len(av)

\* ------------------------------------------------------ library functions

\* os.path.basename: the part after the last "/".
Basename(p) == IF p = "pkg/mod.py" THEN "mod.py" ELSE p

\* os.path.exists: true when stat() succeeds; false when the path is absent
\* and also when stat() fails for lack of permission on a directory of it.
PathExists(fsys, p) == fsys[p].kind \notin {"missing", "nosearch"}

\* The mode the __main__ block passes to open() (line 67).
SimOpenMode == "r"

\* builtin open(path, mode): the outcome and the file system afterwards.
\* Mode "r" never changes the file system; mode "w" creates or truncates.
OpenFile(fsys, p, mode) ==
    LET st == fsys[p] IN
    CASE st.kind = "dir" ->
           [ok |-> FALSE, err |-> "IsADirectoryError", fs |-> fsys]
      [] st.kind \in {"noperm", "nosearch"} ->
           [ok |-> FALSE, err |-> "PermissionError", fs |-> fsys]
      [] st.kind = "missing" /\ mode = "r" ->
           [ok |-> FALSE, err |-> "FileNotFoundError", fs |-> fsys]
      [] st.kind = "missing" /\ mode # "r" ->
           [ok |-> TRUE, err |-> "",
            fs |-> [fsys EXCEPT ![p] = [kind |-> "file", content |-> <<>>]]]
      [] st.kind = "file" /\ mode = "r" ->
           [ok |-> TRUE, err |-> "", fs |-> fsys]
      [] OTHER ->
           [ok |-> TRUE, err |-> "",
            fs |-> [fsys EXCEPT ![p] = [kind |-> "file", content |-> <<>>]]]

\* Decoding of the bytes of a file opened in text mode.
Decodable(c) == \A i \in 1..Len(c) : c[i] # BAD

\* Universal-newlines translation of text mode: "\r\n" and "\r" read as "\n".
RECURSIVE UniversalNewlines(_)
UniversalNewlines(c) ==
    IF c = <<>> THEN <<>>
    ELSE IF Head(c) = CR
         THEN IF Len(c) >= 2 /\ c[2] = LF
              THEN <<LF>> \o UniversalNewlines(Tail(Tail(c)))
              ELSE <<LF>> \o UniversalNewlines(Tail(c))
         ELSE <<Head(c)>> \o UniversalNewlines(Tail(c))

\* f.read() on a handle opened with mode "r".
ReadText(c) == UniversalNewlines(c)

\* print(text): writes the text and the line terminator.
PyPrint(out, text) == out \o text \o <<LF>>

\* The argument the __main__ block uses: sys.argv[1].
SimArg(av) == av[2]

\* Mutant: the argument count is validated, as main() does.
SimArgsNotOne(av) == ArgCount(av) # 2

\* sys.argv[1] raises IndexError when no argument was given.
SimArgsMissing(av) == ArgCount(av) < 2

\* The f-string of line 66.
SimHeader(p) == <<"// SIMULATED transpilation of ", p>>

\* The f-string of line 52, before the content is appended.
MainHeader(p) == <<"// Transpiled content from ", Basename(p), LF, LF>>

\* Mutant: leaving the with block keeps the handle.
WithExitKeep(h) == h

\* __exit__ of the with block of a file object: the handle is closed.
WithExit(h) == IF h = "open" THEN "closed" ELSE h


\* ------------------------------------------------------------ the library
\* Exit statuses a SystemExit raised inside the library may carry.
LibExitStatuses == {0, 1, 3}

\* How a process ended by SIGINT is reported (the negated signal number).
SigIntStatus == -2

\* What library code may write to standard output: nothing, or some text
\* of its own.
LibOutputs == {<<>>, <<"<library output>">>}

\* A message carried by a SystemExit raised inside the library.
LibExitMsg == "<SystemExit message>"

\* What "from py2ts import python2ts" does with one installation: the text
\* the module code writes to standard output, whether the import writes
\* the bytecode cache (the package exists and its directory can be written),
\* and how it ends: "ok", the name of the exception that leaves it, or a
\* SystemExit with a status or a message.
LibBehaviour(out, writes, outcome, status) ==
    [out |-> out, writes |-> writes, outcome |-> outcome, status |-> status]

\* py2ts is not installed: there is no code to run and nothing to cache.
LibAbsent == LibBehaviour(<<>>, FALSE, "ModuleNotFoundError", NoExit)

\* py2ts is installed, its module code only defines names, and its import
\* writes nothing (the directory cannot be written, or the cache is there).
LibQuiet == LibBehaviour(<<>>, FALSE, "ok", NoExit)

\* How the import of an existing package ends, with the status of the
\* exit where there is one: it returns; the package has no module
\* python2ts; its module code raises, is interrupted, or exits.
LibOutcomes ==
    {<<"ok", NoExit>>, <<"ImportError", NoExit>>, <<"TypeError", NoExit>>,
     <<"KeyboardInterrupt", NoExit>>, <<"SystemExitMsg", NoExit>>}
    \cup {<<"SystemExit", st>> : st \in LibExitStatuses}

LibInstallations ==
    {LibAbsent}
    \cup {LibBehaviour(out, w, oc[1], oc[2]) :
            out \in LibOutputs, w \in BOOLEAN, oc \in LibOutcomes}

\* Between two runs py2ts may be left alone, removed, installed (a package
\* whose module code only defines names, in a directory the run can write
\* or not) or stripped of its module python2ts.
LibChanges(l) ==
    {l, LibAbsent}
    \cup {LibBehaviour(<<>>, w, oc, NoExit) :
            w \in BOOLEAN, oc \in {"ok", "ImportError"}}

\* The bytecode cache once written.
CacheDir == [kind |-> "dir", content |-> <<>>]

\* ---------------------------------------------------------------- state
VARIABLES
    argv,          \* sys.argv
    fs,            \* the file system: path -> file state
    runAs,         \* "script": __name__ is "__main__"; "imported": it is not
    lib,           \* the installation of py2ts: what importing it does
    pc,            \* the statement about to execute
    stdout,        \* text written to standard output by this run
    stderr,        \* messages written to standard error by this run
    handle,        \* the file object f: "none", "open" or "closed"
    text,          \* the value returned by f.read()
    opens,         \* the open() calls made by this run: <<path, mode>>
    exitCode,      \* exit status of the process, NoExit while it runs
    fs0,           \* the file system as it was when this run started
    prev           \* what an earlier run of the script was observed to do

vars == <<argv, fs, runAs, lib, pc, stdout, stderr, handle, text,
          opens, exitCode, fs0, prev>>

NoRun ==
    [argv |-> <<>>, file |-> MissingFile, lib |-> LibAbsent, out |-> <<>>,
     code |-> NoExit]

\* The second path only has to be distinguishable from the first.
OtherFileStates == {[kind |-> "file", content |-> <<"a">>]}

\* The bytecode cache of py2ts is there or not.
CacheStates == {MissingFile, CacheDir}

\* Between two runs the bytecode cache may be deleted (with the package or
\* alone) or written (by another program importing py2ts).
CacheChanges(fsys) == {[fsys EXCEPT ![CachePath] = c] : c \in CacheStates}

FileSystems ==
    {[p \in AllPaths |->
        IF p = "hello.py" THEN a ELSE IF p = CachePath THEN c ELSE b] :
       a \in FileStates, b \in OtherFileStates, c \in CacheStates}

Init ==
    /\ argv \in ArgVectors
    /\ fs \in FileSystems
    /\ runAs \in {"script", "imported"}
    /\ lib \in LibInstallations
    /\ pc = "import"
    /\ stdout = <<>>
    /\ stderr = <<>>
    /\ handle = "none"
    /\ text = <<>>
    /\ opens = <<>>
    /\ exitCode = NoExit
    /\ fs0 = fs
    /\ prev = NoRun

\* The messages main() writes to standard error (lines 13, 19 and 57).
UsageMsg == "Usage: python transpile.py <path_to_python_file>"
NotFoundMsg == "Error: File not found at <file_path>"
TranspileErrMsg == "An error occurred during transpilation: <e>"

\* An exception nobody catches: its traceback, named here by the exception
\* type, goes to standard error and the exit status is 1.
Uncaught(err) ==
    /\ stderr' = Append(stderr, err)
    /\ exitCode' = 1
    /\ pc' = "done"

\* sys.exit(1) after a message on standard error.
ExitWith(msg) ==
    /\ stderr' = Append(stderr, msg)
    /\ exitCode' = 1
    /\ pc' = "done"

\* ------------------------------------------------- module body, lines 2-4
\* Lines 2-4.  sys and os are part of the interpreter.  Importing py2ts
\* runs the code of the installed package: what it prints goes to standard
\* output, the interpreter writes the bytecode cache, and whatever the
\* import raises leaves the script, which has no handler around it.
ImportModules ==
    /\ pc = "import"
    /\ stdout' = stdout \o lib.out
    /\ fs' = IF lib.writes THEN [fs EXCEPT ![CachePath] = CacheDir] ELSE fs
    /\ CASE lib.outcome = "ok" ->
              /\ pc' = "guard"
              /\ UNCHANGED <<stderr, exitCode>>
         [] lib.outcome = "SystemExit" ->
              /\ exitCode' = lib.status
              /\ pc' = "done"
              /\ UNCHANGED stderr
         [] lib.outcome = "SystemExitMsg" ->
              /\ stderr' = Append(stderr, LibExitMsg)
              /\ exitCode' = 1
              /\ pc' = "done"
         [] lib.outcome = "KeyboardInterrupt" ->
              /\ stderr' = Append(stderr, "KeyboardInterrupt")
              /\ exitCode' = SigIntStatus
              /\ pc' = "done"
         [] OTHER ->
              Uncaught(lib.outcome)
    /\ UNCHANGED <<argv, runAs, lib, handle, text, opens, fs0, prev>>

\* Mutant: the guarded block calls main(), as the usual idiom does.
GuardTargetMain == "main_argc"

\* Where control goes when the guard of line 60 is true.
GuardTarget == "sim_header"

\* Line 60: if __name__ == "__main__".
NameGuard ==
    /\ pc = "guard"
    /\ pc' = IF runAs = "script" THEN GuardTarget ELSE "loaded"
    /\ UNCHANGED <<argv, fs, runAs, lib, stdout, stderr, handle,
                   text, opens, exitCode, fs0, prev>>

\* ------------------------------------------- __main__ block, lines 66-68
\* Line 66: the f-string indexes sys.argv[1] before print is called.
SimPrintHeader ==
    /\ pc = "sim_header"
    /\ IF SimArgsMissing(argv)
       THEN /\ Uncaught("IndexError")
            /\ UNCHANGED stdout
       ELSE /\ stdout' = PyPrint(stdout, SimHeader(SimArg(argv)))
            /\ pc' = "sim_open"
            /\ UNCHANGED <<stderr, exitCode>>
    /\ UNCHANGED <<argv, fs, runAs, lib, handle, text, opens, fs0,
                   prev>>

\* Line 67: with open(sys.argv[1], 'r') as f.
SimOpen ==
    /\ pc = "sim_open"
    /\ LET r == OpenFile(fs, SimArg(argv), SimOpenMode) IN
       /\ fs' = r.fs
       /\ opens' = Append(opens, <<SimArg(argv), SimOpenMode>>)
       /\ IF r.ok
          THEN /\ handle' = "open"
               /\ pc' = "sim_read"
               /\ UNCHANGED <<stderr, exitCode>>
          ELSE /\ Uncaught(r.err)
               /\ UNCHANGED handle
    /\ UNCHANGED <<argv, runAs, lib, stdout, text, fs0, prev>>

\* Line 68, the argument of print: f.read().  A decoding error leaves the
\* with block, which closes the file, and then nobody catches it.
SimRead ==
    /\ pc = "sim_read"
    /\ LET c == fs[SimArg(argv)].content IN
       IF Decodable(c)
       THEN /\ text' = ReadText(c)
            /\ pc' = "sim_print"
            /\ UNCHANGED <<handle, stderr, exitCode>>
       ELSE /\ handle' = WithExit(handle)
            /\ Uncaught("UnicodeDecodeError")
            /\ UNCHANGED text
    /\ UNCHANGED <<argv, fs, runAs, lib, stdout, opens, fs0, prev>>

\* Line 68: print(...) of the text read.
SimPrintContent ==
    /\ pc = "sim_print"
    /\ stdout' = PyPrint(stdout, text)
    /\ pc' = "sim_close"
    /\ UNCHANGED <<argv, fs, runAs, lib, stderr, handle, text,
                   opens, exitCode, fs0, prev>>

\* End of the with block and of the script: the file is closed, exit 0.
SimClose ==
    /\ pc = "sim_close"
    /\ handle' = WithExit(handle)
    /\ exitCode' = 0
    /\ pc' = "done"
    /\ UNCHANGED <<argv, fs, runAs, lib, stdout, stderr, text,
                   opens, fs0, prev>>

\* ------------------------------------------------------ main(), lines 6-58
\* What code outside the script (another process between two runs, the
\* library inside main()) may do to the file system: delete or rewrite one
\* file.
EnvFileStates == {MissingFile, [kind |-> "file", content |-> <<"a">>]}

EnvChanges(fsys) ==
    {fsys} \cup {[fsys EXCEPT ![p] = st] : p \in Paths, st \in EnvFileStates}


\* A host that imported the module calls main().
CallMain ==
    /\ pc = "loaded"
    /\ pc' = "main_argc"
    /\ UNCHANGED <<argv, fs, runAs, lib, stdout, stderr, handle,
                   text, opens, exitCode, fs0, prev>>

\* Lines 12-16: the argument-count check.
MainCheckArgs ==
    /\ pc = "main_argc"
    /\ IF ArgCount(argv) # 2
       THEN ExitWith(UsageMsg)
       ELSE /\ pc' = "main_exists"
            /\ UNCHANGED <<stderr, exitCode>>
    /\ UNCHANGED <<argv, fs, runAs, lib, stdout, handle, text,
                   opens, fs0, prev>>

\* Lines 18-20: the existence check.
MainCheckExists ==
    /\ pc = "main_exists"
    /\ IF ~PathExists(fs, argv[2])
       THEN ExitWith(NotFoundMsg)
       ELSE /\ pc' = "main_lib"
            /\ UNCHANGED <<stderr, exitCode>>
    /\ UNCHANGED <<argv, fs, runAs, lib, stdout, handle, text,
                   opens, fs0, prev>>

\* Lines 22-39 and 56-58: the import from py2ts.python2ts and the
\* Schema(...) call, inside the try block.  The library is not part of the
\* repository: its code may write to standard output and to files, and it
\* may return or raise anything.  The clause of line 56 is "except
\* Exception": it catches an Exception and reports it.  Everything else
\* leaves main(): a SystemExit ends the process with the status it carries,
\* or with its message on standard error and status 1; a KeyboardInterrupt
\* ends it with a traceback and death by SIGINT; any other BaseException
\* with a traceback and status 1.
MainUseLibrary ==
    /\ pc = "main_lib"
    /\ \E out \in LibOutputs : stdout' = stdout \o out
    /\ \E outcome \in {"ok", "Exception", "SystemExit", "SystemExitMsg",
                       "KeyboardInterrupt", "BaseException"} :
         CASE outcome = "ok" ->
                /\ pc' = "main_open"
                /\ UNCHANGED <<stderr, exitCode>>
           [] outcome = "Exception" ->
                ExitWith(TranspileErrMsg)
           [] outcome = "SystemExit" ->
                /\ exitCode' \in LibExitStatuses
                /\ pc' = "done"
                /\ UNCHANGED stderr
           [] outcome = "SystemExitMsg" ->
                /\ stderr' = Append(stderr, LibExitMsg)
                /\ exitCode' = 1
                /\ pc' = "done"
           [] outcome = "KeyboardInterrupt" ->
                /\ stderr' = Append(stderr, "KeyboardInterrupt")
                /\ exitCode' = SigIntStatus
                /\ pc' = "done"
           [] OTHER ->
                Uncaught("BaseException")
    /\ fs' \in EnvChanges(fs)
    /\ UNCHANGED <<argv, runAs, lib, handle, text, opens, fs0,
                   prev>>

\* Line 48: with open(file_path, 'r') as f; an OSError is caught at line 56.
MainOpen ==
    /\ pc = "main_open"
    /\ LET r == OpenFile(fs, argv[2], "r") IN
       /\ fs' = r.fs
       /\ opens' = Append(opens, <<argv[2], "r">>)
       /\ IF r.ok
          THEN /\ handle' = "open"
               /\ pc' = "main_read"
               /\ UNCHANGED <<stderr, exitCode>>
          ELSE /\ ExitWith(TranspileErrMsg)
               /\ UNCHANGED handle
    /\ UNCHANGED <<argv, runAs, lib, stdout, text, fs0, prev>>

\* Line 49: content = f.read(), then the with block ends and closes f.
MainRead ==
    /\ pc = "main_read"
    /\ handle' = WithExit(handle)
    /\ LET c == fs[argv[2]].content IN
       IF Decodable(c)
       THEN /\ text' = ReadText(c)
            /\ pc' = "main_print"
            /\ UNCHANGED <<stderr, exitCode>>
       ELSE /\ ExitWith(TranspileErrMsg)
            /\ UNCHANGED text
    /\ UNCHANGED <<argv, fs, runAs, lib, stdout, opens, fs0, prev>>

\* Lines 52-54: print(ts_content); main() returns to the host.
MainPrint ==
    /\ pc = "main_print"
    /\ stdout' = PyPrint(stdout, MainHeader(argv[2]) \o text)
    /\ pc' = "returned"
    /\ UNCHANGED <<argv, fs, runAs, lib, stderr, handle, text,
                   opens, exitCode, fs0, prev>>

\* ------------------------------------------------------------ environment
\* What a finished run of the script let an observer see.
Observation ==
    [argv |-> argv,
     file |-> IF ArgCount(argv) >= 2 THEN fs[argv[2]] ELSE MissingFile,
     lib |-> lib, out |-> stdout, code |-> exitCode]

\* The user runs the script once more, with any argument vector.  In
\* between, one file may have been deleted or rewritten, py2ts installed,
\* removed or replaced, and its bytecode cache deleted or written.
Reinvoke ==
    /\ pc = "done"
    /\ runAs = "script"
    /\ prev = NoRun
    /\ prev' = Observation
    /\ argv' \in ArgVectors
    /\ pc' = "import"
    /\ stdout' = <<>>
    /\ stderr' = <<>>
    /\ handle' = "none"
    /\ text' = <<>>
    /\ opens' = <<>>
    /\ exitCode' = NoExit
    /\ lib' \in LibChanges(lib)
    /\ \E fsys \in EnvChanges(fs) : fs' \in CacheChanges(fsys)
    /\ fs0' = fs'
    /\ UNCHANGED runAs

Next ==
    \/ ImportModules
    \/ NameGuard
    \/ SimPrintHeader
    \/ SimOpen
    \/ SimRead
    \/ SimPrintContent
    \/ SimClose
    \/ CallMain
    \/ MainCheckArgs
    \/ MainCheckExists
    \/ MainUseLibrary
    \/ MainOpen
    \/ MainRead
    \/ MainPrint
    \/ Reinvoke

Spec == Init /\ [][Next]_vars

TypeOK ==
    /\ argv \in ArgVectors
    /\ fs \in [AllPaths -> FileStates]
    /\ runAs \in {"script", "imported"}
    /\ lib \in LibInstallations
    /\ handle \in {"none", "open", "closed"}
    /\ exitCode \in {NoExit, 0, 1, SigIntStatus} \cup LibExitStatuses

\* ================================================================ claims
ScriptRun == runAs = "script"
Done == pc = "done"
HasArg == ArgCount(argv) >= 2
HeaderLine(p) == SimHeader(p) \o <<LF>>
Contains(seq, x) == \E i \in 1..Len(seq) : seq[i] = x
IsPrefix(a, b) == Len(a) <= Len(b) /\ SubSeq(b, 1, Len(a)) = a
MainPcs == {"main_argc", "main_exists", "main_lib", "main_open",
            "main_read", "main_print", "returned"}

\* The import of line 4 succeeds and does nothing that can be observed.
QuietImport == lib = LibQuiet

\* C1: for every existing readable file F with content C, running the
\* script with F's path P as its single argument leaves standard output
\* exactly equal to the header line for P followed by C, nothing added.
\* Stated for the most favourable case: the import is quiet and C decodes.
C1_ExactOutput ==
    (/\ ScriptRun /\ Done /\ QuietImport
     /\ ArgCount(argv) = 2
     /\ fs[argv[2]].kind = "file"
     /\ Decodable(fs[argv[2]].content))
    => stdout = HeaderLine(argv[2]) \o fs[argv[2]].content

\* What the code does in the case of C1: the text as text mode reads it,
\* and the line terminator of print after it.
C1_Observed ==
    (/\ ScriptRun /\ Done /\ QuietImport
     /\ ArgCount(argv) = 2
     /\ fs[argv[2]].kind = "file"
     /\ Decodable(fs[argv[2]].content))
    => /\ stdout = HeaderLine(argv[2])
                     \o UniversalNewlines(fs[argv[2]].content) \o <<LF>>
       /\ exitCode = 0

\* C2: when the path cannot be opened for reading, the script ends with a
\* non-zero exit code and standard output is empty at termination.
\* Stated for the most favourable case: the import is quiet.
C2_NoOutputOnOpenFailure ==
    (/\ ScriptRun /\ Done /\ QuietImport /\ HasArg
     /\ fs[argv[2]].kind # "file")
    => (exitCode # 0 /\ stdout = <<>>)

\* C3: invoked with zero arguments the script ends with a non-zero exit
\* code caused by an index error on the argument vector, having attempted
\* no open, written nothing to standard output and no usage message.
\* Stated for py2ts not installed or importing quietly.
C3_ZeroArgsIndexError ==
    (/\ ScriptRun /\ Done /\ ArgCount(argv) = 1
     /\ lib \in {LibAbsent, LibQuiet})
    => /\ exitCode \notin {0, NoExit}
       /\ stderr = <<"IndexError">>
       /\ opens = <<>>
       /\ stdout = <<>>
       /\ ~Contains(stderr, UsageMsg)

\* What the code does in the case of C3 when the import is quiet.
C3_Observed ==
    (ScriptRun /\ Done /\ ArgCount(argv) = 1 /\ QuietImport)
    => /\ exitCode = 1
       /\ stderr = <<"IndexError">>
       /\ opens = <<>>
       /\ stdout = <<>>

\* The run printed the header line and then the whole text of the file
\* (after whatever the import printed).
WroteAll ==
    /\ HasArg
    /\ fs[argv[2]].kind = "file"
    /\ stdout = lib.out \o PyPrint(HeaderLine(argv[2]),
                                   ReadText(fs[argv[2]].content))

C4_Observed ==
    (ScriptRun /\ Done /\ lib.outcome = "ok")
    => /\ (exitCode = 0 <=> WroteAll)
       /\ (~HasArg => exitCode # 0)
       /\ (HasArg /\ fs[argv[2]].kind # "file" => exitCode # 0)

\* C5: on every run of the script the file system is unchanged (every path
\* is in the state it had when the run started, every open is read-only
\* and of the first argument) and standard output is the only thing the
\* run writes.
C5_FileSystemUnchanged ==
    ScriptRun
    => /\ fs = fs0
       /\ \A i \in 1..Len(opens) : opens[i] = <<argv[2], "r">>
       /\ stderr = <<>>

\* What the code of lines 66-68 does in the case of C5: its only open is
\* read-only, and after a quiet import no path has changed.
C5_Observed ==
    ScriptRun
    => /\ \A i \in 1..Len(opens) : opens[i] = <<argv[2], "r">>
       /\ (~lib.writes => fs = fs0)

\* C6: when the file runs as a script main() is never entered: no statement
\* of main() is reached and none of its messages or its header is written.
C6_MainUnreachable ==
    ScriptRun
    => /\ pc \notin MainPcs
       /\ ~Contains(stderr, UsageMsg)
       /\ ~Contains(stderr, NotFoundMsg)
       /\ ~Contains(stderr, TranspileErrMsg)
       /\ ~Contains(stdout, "// Transpiled content from ")

C6_Witness ==
    /\ ScriptRun /\ Done /\ lib.outcome = "ok" /\ ArgCount(argv) = 3
    /\ exitCode = 1

\* C7: in every terminal state no file handle opened by the run is still
\* held: whenever open succeeded the handle is closed before the process
\* ends or the error propagates out.
C7_HandleReleased ==
    (pc \in {"done", "returned"})
    => /\ handle # "open"
       /\ (\E i \in 1..Len(opens) :
              OpenFile(fs, opens[i][1], opens[i][2]).ok)
          => handle = "closed"

C7_Witness ==
    /\ ScriptRun /\ Done /\ exitCode = 1 /\ handle = "closed"
    /\ stderr = <<"UnicodeDecodeError">>

\* C8: two runs of the script with the same first argument, against the
\* same state of the file it names, produce the same standard output and
\* the same exit code: the output depends on nothing else.  So do two runs
\* with the same argument vector.
C8_Deterministic ==
    (ScriptRun /\ Done /\ prev # NoRun)
    => /\ (/\ HasArg /\ Len(prev.argv) >= 2
           /\ prev.argv[2] = argv[2]
           /\ prev.file = fs[argv[2]])
          => (stdout = prev.out /\ exitCode = prev.code)
       /\ (~HasArg /\ prev.argv = argv)
          => (stdout = prev.out /\ exitCode = prev.code)

\* What the code does in the case of C8 when py2ts is the same in both
\* runs.
C8_Observed ==
    (ScriptRun /\ Done /\ prev # NoRun /\ prev.lib = lib)
    => /\ (/\ HasArg /\ Len(prev.argv) >= 2
           /\ prev.argv[2] = argv[2]
           /\ prev.file = fs[argv[2]])
          => (stdout = prev.out /\ exitCode = prev.code)
       /\ (~HasArg /\ prev.argv = argv)
          => (stdout = prev.out /\ exitCode = prev.code)

\* C9: in every state of a script run standard output is empty, the header
\* line only, or the header line followed by the complete content (as it
\* is on disk, or as text mode reads it); the header is written before the
\* open is attempted.  Stated for the most favourable case: the import is
\* quiet.
C9_OutputShapes ==
    (ScriptRun /\ QuietImport)
    => /\ \/ stdout = <<>>
          \/ HasArg /\ stdout = HeaderLine(argv[2])
          \/ HasArg /\ stdout = HeaderLine(argv[2]) \o fs[argv[2]].content
          \/ HasArg /\ stdout = HeaderLine(argv[2])
                                  \o ReadText(fs[argv[2]].content)
       /\ (opens # <<>> => IsPrefix(HeaderLine(argv[2]), stdout))

\* The ordering that the code does keep: the header line is on standard
\* output before the open is attempted, and what follows it is nothing
\* until the read has succeeded and then the whole text at once.
C9_Ordering ==
    ScriptRun
    => /\ (opens # <<>> => IsPrefix(lib.out \o HeaderLine(argv[2]), stdout))
       /\ \/ stdout \in {<<>>, lib.out} /\ opens = <<>>
          \/ HasArg /\ stdout = lib.out \o HeaderLine(argv[2])
          \/ /\ HasArg /\ pc \in {"sim_close", "done"}
             /\ stdout = lib.out \o PyPrint(HeaderLine(argv[2]), text)
             /\ text = ReadText(fs[argv[2]].content)

\* C10: the argument count is never validated: with two or more arguments
\* the script does not fail with a usage error and behaves exactly as when
\* invoked, in the same environment, with the first argument alone.
C10_ExtraArgsIgnored ==
    (/\ ScriptRun /\ Done /\ prev # NoRun
     /\ ArgCount(argv) >= 3
     /\ prev.argv = <<ScriptName, argv[2]>>
     /\ prev.file = fs[argv[2]]
     /\ prev.lib = lib)
    => /\ stdout = prev.out
       /\ exitCode = prev.code
       /\ ~Contains(stderr, UsageMsg)
       /\ ~Contains(stderr, "IndexError")

C10_Witness ==
    /\ ScriptRun /\ Done /\ prev # NoRun
    /\ ArgCount(argv) = 3
    /\ argv[3] # argv[2]
    /\ prev.argv = <<ScriptName, argv[2]>>
    /\ prev.file = fs[argv[2]]
    /\ prev.lib = lib
    /\ exitCode = 0

====
